---------------------------- MODULE Spec2Model ----------------------------
(***************************************************************************)
(* A model of the wordlist tools of ulif/wordlist-gen:                     *)
(*   libwordlist.py  : normalize, base10_to_n, idx_to_dicenums,            *)
(*                     shuffle_max_width_items, min_width_iter,            *)
(*                     is_prefix_code                                      *)
(*   wordlist_gen.py : min_width_iter, generate_wordlist                   *)
(* Strings are sequences of one-character strings; a list is a sequence.   *)
(* Every function gets a specification of its own whose Init draws the     *)
(* arguments of one call and whose actions are the steps of that call.     *)
(***************************************************************************)
EXTENDS Integers, Sequences, FiniteSets, TLC

VARIABLES
    \* libwordlist.min_width_iter(iterator, num, shuffle_max_width)
    iterator, num, shuffle_max_width, all_terms, yielded, pc, raised,
    \* libwordlist.idx_to_dicenums(item_index, dice_num, dice_sides, separator)
    item_index, dice_num, dice_sides, separator, nums, padded, dicenums, dice_pc,
    \* libwordlist.is_prefix_code(iterator)
    pfx_iterator, sorted_list, last_elem, pos, pfx_ret, pfx_pc,
    \* libwordlist.normalize(text)
    text, transformed, nfkd_form, normalized, norm_pc,
    \* wordlist_gen.generate_wordlist(input_terms, length)
    input_terms, length, terms, selected, gen_yielded, gen_pc, gen_raised

selVars == <<iterator, num, shuffle_max_width, all_terms, yielded, pc, raised>>
diceVars == <<item_index, dice_num, dice_sides, separator, nums, padded,
              dicenums, dice_pc>>
pfxVars == <<pfx_iterator, sorted_list, last_elem, pos, pfx_ret, pfx_pc>>
normVars == <<text, transformed, nfkd_form, normalized, norm_pc>>
genVars == <<input_terms, length, terms, selected, gen_yielded, gen_pc, gen_raised>>
vars == <<selVars, diceVars, pfxVars, normVars, genVars>>

(***************************************************************************)
(* Bounds of the model.                                                    *)
(***************************************************************************)
MaxLen == 3      \* longest term of a pool
MaxPool == 3     \* most terms in a pool
MaxIndex == 30   \* largest item_index
MaxDice == 3     \* largest dice_num
MaxSides == 4    \* largest dice_sides
MaxWordLen == 2  \* longest term handed to is_prefix_code and generate_wordlist
MaxList == 3     \* longest list handed to is_prefix_code and generate_wordlist
MaxText == 2     \* longest text handed to normalize

(***************************************************************************)
(* Python values and built-ins.                                            *)
(***************************************************************************)
None == "None"

\* ord(): the code points of the letters terms are made of.
ord == ("a" :> 97) @@ ("b" :> 98) @@ (" " :> 32)

Letters == {"a", "b"}
Whitespace == {" "}

\* All strings over Letters of the given length.
StringsOfLen(n) == [1..n -> Letters]

\* A Term: non-empty, whitespace-trimmed.
Terms == UNION {StringsOfLen(n) : n \in 1..MaxLen}

Min(a, b) == IF a < b THEN a ELSE b
Max(a, b) == IF a < b THEN b ELSE a

\* str < str: lexicographic by code point, a proper prefix sorts first.
RECURSIVE StrLess(_, _)
StrLess(s, t) ==
    IF t = <<>> THEN FALSE
    ELSE IF s = <<>> THEN TRUE
    ELSE IF ord[Head(s)] # ord[Head(t)] THEN ord[Head(s)] < ord[Head(t)]
    ELSE StrLess(Tail(s), Tail(t))

\* mutant: the sort key is the term alone
LexLessOnly(s, t) == StrLess(s, t)

\* the sort key  lambda x: (len(x), x)  compared as Python compares tuples
LenLexLess(s, t) ==
    \/ Len(s) < Len(t)
    \/ Len(s) = Len(t) /\ StrLess(s, t)

\* str.startswith
StartsWith(s, prefix) ==
    /\ Len(prefix) <= Len(s)
    /\ SubSeq(s, 1, Len(prefix)) = prefix

\* str.strip(): leading and trailing whitespace removed
RECURSIVE LStrip(_)
LStrip(s) ==
    IF s # <<>> /\ Head(s) \in Whitespace THEN LStrip(Tail(s)) ELSE s

RECURSIVE RStrip(_)
RStrip(s) ==
    IF s # <<>> /\ s[Len(s)] \in Whitespace
    THEN RStrip(SubSeq(s, 1, Len(s) - 1)) ELSE s

Strip(s) == LStrip(RStrip(s))

\* seq[i] with a Python index: defined for -len <= i < len
IndexOk(seq, i) == -Len(seq) <= i /\ i < Len(seq)
PyIndex(seq, i) == IF i >= 0 THEN seq[i + 1] ELSE seq[Len(seq) + i + 1]

\* seq[:k]
SliceTo(seq, k) ==
    IF k >= 0 THEN SubSeq(seq, 1, Min(k, Len(seq)))
    ELSE SubSeq(seq, 1, Max(Len(seq) + k, 0))

\* seq[-k:]  (seq[-0:] is seq[0:], the whole list)
SliceLast(seq, k) ==
    IF k = 0 THEN seq
    ELSE SubSeq(seq, Max(Len(seq) - k, 0) + 1, Len(seq))

Range(seq) == {seq[i] : i \in 1..Len(seq)}

\* the keys lists are sorted by: the item itself, or (len(x), x)
ByValue == "x"
ByLenValue == "(len(x), x)"

\* key(s) < key(t)
KeyLess(key, s, t) == IF key = ByLenValue THEN LenLexLess(s, t) ELSE StrLess(s, t)

\* x put into the sorted list seq after the elements not greater than it
Insert(x, seq, key) ==
    LET k == Cardinality({i \in 1..Len(seq) : ~KeyLess(key, x, seq[i])})
    IN SubSeq(seq, 1, k) \o <<x>> \o SubSeq(seq, k + 1, Len(seq))

\* sorted(seq, key=key): a stable insertion sort
SortedBy(seq, key) ==
    LET srt[n \in 0..Len(seq)] ==
            IF n = 0 THEN <<>> ELSE Insert(seq[n], srt[n - 1], key)
    IN srt[Len(seq)]

\* mutant: the entries are drawn with replacement
DrawnWithReplacement(seq) == [1..Len(seq) -> Range(seq)]

\* the outcomes of random.shuffle(seq): every arrangement of seq
ShuffleOutcomes(seq) ==
    {[i \in 1..Len(seq) |-> seq[p[i]]] :
        p \in {q \in [1..Len(seq) -> 1..Len(seq)] : Range(q) = 1..Len(seq)}}

\* an iteration order of a set of unique terms (what the caller hands in)
RECURSIVE SeqOf(_)
SeqOf(S) ==
    IF S = {} THEN <<>>
    ELSE LET x == CHOOSE y \in S : TRUE IN <<x>> \o SeqOf(S \ {x})

(***************************************************************************)
(* libwordlist.shuffle_max_width_items(word_list, max_width)               *)
(***************************************************************************)
\* line 175
Stripped(word_list) == [i \in 1..Len(word_list) |-> Strip(word_list[i])]

\* min_width_iter, the only caller, always passes max_width (line 252), so
\* the default of lines 176-177 is never computed.
\* the entries yielded before the shuffled ones (lines 175, 178-179)
ShorterEntries(word_list, max_width) ==
    LET IsShorter(x) == Len(x) < max_width
    IN SelectSeq(Stripped(word_list), IsShorter)

\* mutant: the entries not shorter than max_width
EntriesNotShorter(word_list, max_width) ==
    LET IsNotShorter(x) == Len(x) >= max_width
    IN SelectSeq(Stripped(word_list), IsNotShorter)

\* max_width_entries before the shuffle (lines 175, 180-181)
MaxWidthEntries(word_list, max_width) ==
    LET IsMaxWidth(x) == Len(x) = max_width
    IN SelectSeq(Stripped(word_list), IsMaxWidth)

\* every list the generator can yield, one per outcome of random.shuffle
shuffle_max_width_items(word_list, max_width) ==
    {ShorterEntries(word_list, max_width) \o shuffled :
        shuffled \in ShuffleOutcomes(MaxWidthEntries(word_list, max_width))}

(***************************************************************************)
(* libwordlist.min_width_iter, a generator: one action per step.           *)
(***************************************************************************)
\* the pools a call may be handed: sets of at most MaxPool unique terms
RECURSIVE PoolsUpTo(_)
PoolsUpTo(k) ==
    IF k = 0 THEN {{}}
    ELSE LET S == PoolsUpTo(k - 1)
         IN S \cup {P \cup {t} : P \in S, t \in Terms}

\* no call of min_width_iter is under way
NoSelectCall ==
    /\ iterator = <<>> /\ num = 0 /\ shuffle_max_width = FALSE
    /\ all_terms = <<>> /\ yielded = <<>> /\ pc = "idle" /\ raised = None

\* no call of idx_to_dicenums is under way
NoDiceCall ==
    /\ item_index = 0 /\ dice_num = 0 /\ dice_sides = 0 /\ separator = <<>>
    /\ nums = <<>> /\ padded = <<>> /\ dicenums = <<>> /\ dice_pc = "idle"

\* no call of is_prefix_code is under way
NoPrefixCall ==
    /\ pfx_iterator = <<>> /\ sorted_list = <<>> /\ last_elem = <<>>
    /\ pos = 0 /\ pfx_ret = FALSE /\ pfx_pc = "idle"

\* no call of normalize is under way
NoNormalizeCall ==
    /\ text = <<>> /\ transformed = <<>> /\ nfkd_form = <<>>
    /\ normalized = <<>> /\ norm_pc = "idle"

\* no call of generate_wordlist is under way
NoGenerateCall ==
    /\ input_terms = <<>> /\ length = 0 /\ terms = <<>> /\ selected = <<>>
    /\ gen_yielded = <<>> /\ gen_pc = "idle" /\ gen_raised = None

InitSelect ==
    /\ NoDiceCall /\ NoPrefixCall /\ NoNormalizeCall /\ NoGenerateCall
    /\ iterator \in {SeqOf(P) : P \in PoolsUpTo(MaxPool)}
    /\ num \in 0..(Len(iterator) + 1)
    /\ shuffle_max_width \in BOOLEAN
    /\ all_terms = <<>>
    /\ yielded = <<>>
    /\ pc = "start"
    /\ raised = None

\* line 249
SortTerms ==
    /\ pc = "start"
    /\ all_terms' = SortedBy(iterator, ByLenValue)
    /\ pc' = "sorted"
    /\ UNCHANGED <<iterator, num, shuffle_max_width, yielded, raised, diceVars, pfxVars, normVars, genVars>>

\* lines 250-252
ShuffleMaxWidth ==
    /\ pc = "sorted"
    /\ shuffle_max_width
    /\ \/ /\ ~IndexOk(all_terms, num - 1)
          /\ raised' = "IndexError"
          /\ pc' = "raised"
          /\ UNCHANGED all_terms
       \/ /\ IndexOk(all_terms, num - 1)
          /\ all_terms' \in
                shuffle_max_width_items(all_terms, Len(PyIndex(all_terms, num - 1)))
          /\ pc' = "yield"
          /\ UNCHANGED raised
    /\ UNCHANGED <<iterator, num, shuffle_max_width, yielded, diceVars, pfxVars, normVars, genVars>>

\* line 250, the condition false
KeepOrder ==
    /\ pc = "sorted"
    /\ ~shuffle_max_width
    /\ pc' = "yield"
    /\ UNCHANGED <<iterator, num, shuffle_max_width, all_terms, yielded, raised, diceVars, pfxVars, normVars, genVars>>

\* lines 253-254, one pass of the loop
YieldTerm ==
    /\ pc = "yield"
    /\ Len(yielded) < Len(SliceTo(all_terms, num))
    /\ yielded' = Append(yielded, SliceTo(all_terms, num)[Len(yielded) + 1])
    /\ UNCHANGED <<iterator, num, shuffle_max_width, all_terms, pc, raised, diceVars, pfxVars, normVars, genVars>>

\* the loop of line 253 is exhausted: the generator returns
Return ==
    /\ pc = "yield"
    /\ Len(yielded) = Len(SliceTo(all_terms, num))
    /\ pc' = "done"
    /\ UNCHANGED <<iterator, num, shuffle_max_width, all_terms, yielded, raised, diceVars, pfxVars, normVars, genVars>>

NextSelect == SortTerms \/ ShuffleMaxWidth \/ KeepOrder \/ YieldTerm \/ Return

SpecSelect == InitSelect /\ [][NextSelect]_vars

(***************************************************************************)
(* libwordlist.base10_to_n(num, base)                                      *)
(***************************************************************************)
\* the loop of lines 70-72 and line 73: digits, least significant first
RECURSIVE Base10Loop(_, _, _)
Base10Loop(curr, base, result) ==
    IF curr >= base
    THEN Base10Loop(curr \div base, base, Append(result, curr % base))
    ELSE Append(result, curr)

\* list.reverse()
Reverse(seq) == [i \in 1..Len(seq) |-> seq[Len(seq) + 1 - i]]

\* mutant: the digits are not reversed
Base10NotReversed(n, base) == Base10Loop(n, base, <<>>)

\* lines 68-75
base10_to_n(n, base) == Reverse(Base10Loop(n, base, <<>>))

\* the loop of line 70 ends: with base 1 and num >= 1 divmod(curr, 1)
\* leaves curr as it is and the call never returns
Base10Terminates(n, base) == base >= 2 \/ n < base

(***************************************************************************)
(* libwordlist.idx_to_dicenums                                             *)
(***************************************************************************)
DigitChars == <<"0", "1", "2", "3", "4", "5", "6", "7", "8", "9">>

\* "%s" % x for an integer x >= 0
RECURSIVE FormatInt(_)
FormatInt(x) ==
    IF x < 10 THEN <<DigitChars[x + 1]>>
    ELSE FormatInt(x \div 10) \o <<DigitChars[(x % 10) + 1]>>

\* sep.join(strs)
RECURSIVE Join(_, _)
Join(strs, sep) ==
    IF strs = <<>> THEN <<>>
    ELSE IF Len(strs) = 1 THEN strs[1]
    ELSE strs[1] \o sep \o Join(Tail(strs), sep)

\* line 150
NumsOf(index, sides) ==
    LET digits == base10_to_n(index, sides)
    IN [i \in 1..Len(digits) |-> digits[i] + 1]

\* mutant: padded with 0 instead of 1
PaddedWithZeros(n, faces) == [i \in 1..n |-> 0] \o faces

\* line 151
PaddedOf(n, faces) == [i \in 1..n |-> 1] \o faces

\* line 152
DicenumsOf(pad, n, sep) ==
    LET faces == SliceLast(pad, n)
    IN Join([i \in 1..Len(faces) |-> FormatInt(faces[i])], sep)

InitDice ==
    /\ NoSelectCall /\ NoPrefixCall /\ NoNormalizeCall /\ NoGenerateCall
    /\ item_index \in 0..MaxIndex
    /\ dice_num \in 0..MaxDice
    /\ dice_sides \in 1..MaxSides
    /\ separator \in {<<"-">>, <<>>}
    /\ nums = <<>>
    /\ padded = <<>>
    /\ dicenums = <<>>
    /\ dice_pc = "call"

\* line 150
ComputeNums ==
    /\ dice_pc = "call"
    /\ Base10Terminates(item_index, dice_sides)
    /\ nums' = NumsOf(item_index, dice_sides)
    /\ dice_pc' = "nums"
    /\ UNCHANGED <<item_index, dice_num, dice_sides, separator, padded, dicenums, selVars, pfxVars, normVars, genVars>>

\* line 151
PadNums ==
    /\ dice_pc = "nums"
    /\ padded' = PaddedOf(dice_num, nums)
    /\ dice_pc' = "padded"
    /\ UNCHANGED <<item_index, dice_num, dice_sides, separator, nums, dicenums, selVars, pfxVars, normVars, genVars>>

\* line 152
JoinDicenums ==
    /\ dice_pc = "padded"
    /\ dicenums' = DicenumsOf(padded, dice_num, separator)
    /\ dice_pc' = "done"
    /\ UNCHANGED <<item_index, dice_num, dice_sides, separator, nums, padded, selVars, pfxVars, normVars, genVars>>

NextDice == ComputeNums \/ PadNums \/ JoinDicenums

SpecDice == InitDice /\ [][NextDice]_vars

(***************************************************************************)
(* libwordlist.is_prefix_code, one action per step.                        *)
(* last_elem is <<>> for None and <<e>> for the string e.                  *)
(***************************************************************************)
\* the strings is_prefix_code and generate_wordlist are tried on; the empty
\* string is one of them
Words == UNION {StringsOfLen(n) : n \in 0..MaxWordLen}

\* all lists of at most n items of S
ListsUpTo(S, n) == UNION {[1..k -> S] : k \in 0..n}

\* mutant: sorted by (length, value)
SortedByLength(it) == SortedBy(it, ByLenValue)

\* line 263
SortedList(it) == SortedBy(it, ByValue)

\* the truth value of last_elem: neither None nor the empty string
Truthy(opt) == opt # <<>> /\ opt[1] # <<>>

InitPrefix ==
    /\ NoSelectCall /\ NoDiceCall /\ NoNormalizeCall /\ NoGenerateCall
    /\ pfx_iterator \in ListsUpTo(Words, MaxList)
    /\ sorted_list = <<>>
    /\ last_elem = <<>>
    /\ pos = 0
    /\ pfx_ret = FALSE
    /\ pfx_pc = "call"

\* lines 263-264
SortList ==
    /\ pfx_pc = "call"
    /\ sorted_list' = SortedList(pfx_iterator)
    /\ last_elem' = <<>>
    /\ pos' = 1
    /\ pfx_pc' = "loop"
    /\ UNCHANGED <<pfx_iterator, pfx_ret, selVars, diceVars, normVars, genVars>>

\* lines 265-268, one pass of the loop
CheckElem ==
    /\ pfx_pc = "loop"
    /\ pos <= Len(sorted_list)
    /\ LET elem == sorted_list[pos]
       IN \/ /\ Truthy(last_elem) /\ StartsWith(elem, last_elem[1])
             /\ pfx_ret' = FALSE
             /\ pfx_pc' = "done"
             /\ UNCHANGED <<last_elem, pos>>
          \/ /\ ~(Truthy(last_elem) /\ StartsWith(elem, last_elem[1]))
             /\ last_elem' = <<elem>>
             /\ pos' = pos + 1
             /\ UNCHANGED <<pfx_ret, pfx_pc>>
    /\ UNCHANGED <<pfx_iterator, sorted_list, selVars, diceVars, normVars, genVars>>

\* line 269
ReturnTrue ==
    /\ pfx_pc = "loop"
    /\ pos > Len(sorted_list)
    /\ pfx_ret' = TRUE
    /\ pfx_pc' = "done"
    /\ UNCHANGED <<pfx_iterator, sorted_list, last_elem, pos,
                   selVars, diceVars, normVars, genVars>>

NextPrefix == SortList \/ CheckElem \/ ReturnTrue

SpecPrefix == InitPrefix /\ [][NextPrefix]_vars

(***************************************************************************)
(* libwordlist.normalize, one action per statement.                        *)
(***************************************************************************)
\* U+0301 COMBINING ACUTE ACCENT, one character
CombiningAcute == "U+0301"

\* the characters texts are made of: letters of the table, plain letters,
\* a letter NFKD decomposes, a combining mark
TextChars ==
    {"ä", "Ä", "æ", "Æ", "ö", "Ö", "ø", "Ø", "ü", "Ü", "ß",
     "a", "e", "s", "U", "é", CombiningAcute}

\* lines 37-42
TRANSFORMS ==
    [c \in {"ä", "Ä", "æ", "Æ", "ö", "Ö", "ø", "Ø", "ü", "Ü", "ß"} |->
        CASE c = "ä" -> <<"a", "e">>
          [] c = "Ä" -> <<"A", "E">>
          [] c = "æ" -> <<"a", "e">>
          [] c = "Æ" -> <<"A", "E">>
          [] c = "ö" -> <<"o", "e">>
          [] c = "Ö" -> <<"O", "E">>
          [] c = "ø" -> <<"o", "e">>
          [] c = "Ø" -> <<"O", "E">>
          [] c = "ü" -> <<"U", "E">>
          [] c = "Ü" -> <<"U", "E">>
          [] c = "ß" -> <<"s", "s">>]

\* "".join(strs)
RECURSIVE Concat(_)
Concat(strs) == IF strs = <<>> THEN <<>> ELSE Head(strs) \o Concat(Tail(strs))

\* TRANSFORMS.get(x, x)
TransformChar(x) == IF x \in DOMAIN TRANSFORMS THEN TRANSFORMS[x] ELSE <<x>>

\* line 43
Transformed(txt) == Concat([i \in 1..Len(txt) |-> TransformChar(txt[i])])

\* unicodedata.normalize("NFKD", .) on one character that can be left after
\* line 43: only the accented letter decomposes
NFKDChar(c) == IF c = "é" THEN <<"e", CombiningAcute>> ELSE <<c>>

\* line 44
NFKD(txt) == Concat([i \in 1..Len(txt) |-> NFKDChar(txt[i])])

\* unicodedata.combining(c) != 0
Combining(c) == c = CombiningAcute

\* line 45
WithoutCombining(txt) == SelectSeq(txt, LAMBDA c : ~Combining(c))

InitNormalize ==
    /\ NoSelectCall /\ NoDiceCall /\ NoPrefixCall /\ NoGenerateCall
    /\ text \in ListsUpTo(TextChars, MaxText)
    /\ transformed = <<>>
    /\ nfkd_form = <<>>
    /\ normalized = <<>>
    /\ norm_pc = "call"

\* line 43
ApplyTransforms ==
    /\ norm_pc = "call"
    /\ transformed' = Transformed(text)
    /\ norm_pc' = "transformed"
    /\ UNCHANGED <<text, nfkd_form, normalized, selVars, diceVars, pfxVars, genVars>>

\* line 44
Decompose ==
    /\ norm_pc = "transformed"
    /\ nfkd_form' = NFKD(transformed)
    /\ norm_pc' = "nfkd"
    /\ UNCHANGED <<text, transformed, normalized, selVars, diceVars, pfxVars, genVars>>

\* line 45
DropCombining ==
    /\ norm_pc = "nfkd"
    /\ normalized' = WithoutCombining(nfkd_form)
    /\ norm_pc' = "done"
    /\ UNCHANGED <<text, transformed, nfkd_form, selVars, diceVars, pfxVars, genVars>>

NextNormalize == ApplyTransforms \/ Decompose \/ DropCombining

SpecNormalize == InitNormalize /\ [][NextNormalize]_vars

(***************************************************************************)
(* wordlist_gen.min_width_iter and generate_wordlist, a generator.         *)
(***************************************************************************)
\* wordlist_gen.min_width_iter, lines 57-59: everything it yields
gen_min_width_iter(it, n) == SliceTo(SortedBy(it, ByLenValue), n)

\* line 72: sorted(list(set(input_terms)))
UniqueSorted(it) == SortedBy(SeqOf(Range(it)), ByValue)

\* mutant: the selection is not sorted again
UnsortedSelection(ts, n) == gen_min_width_iter(ts, n)

\* line 76: sorted(min_width_iter(terms, length))
SortedSelection(ts, n) == SortedBy(gen_min_width_iter(ts, n), ByValue)

InitGenerate ==
    /\ NoSelectCall /\ NoDiceCall /\ NoPrefixCall /\ NoNormalizeCall
    /\ input_terms \in ListsUpTo(Words \ {<<>>}, MaxList)
    /\ length \in 0..(Len(input_terms) + 1)
    /\ terms = <<>>
    /\ selected = <<>>
    /\ gen_yielded = <<>>
    /\ gen_pc = "call"
    /\ gen_raised = None

\* line 72
CollectTerms ==
    /\ gen_pc = "call"
    /\ terms' = UniqueSorted(input_terms)
    /\ gen_pc' = "collected"
    /\ UNCHANGED <<input_terms, length, selected, gen_yielded, gen_raised,
                   selVars, diceVars, pfxVars, normVars>>

\* lines 73-76
SelectTerms ==
    /\ gen_pc = "collected"
    /\ \/ /\ Len(terms) < length
          /\ gen_raised' = "ValueError"
          /\ gen_pc' = "raised"
          /\ UNCHANGED selected
       \/ /\ ~(Len(terms) < length)
          /\ selected' = SortedSelection(terms, length)
          /\ gen_pc' = "yield"
          /\ UNCHANGED gen_raised
    /\ UNCHANGED <<input_terms, length, terms, gen_yielded,
                   selVars, diceVars, pfxVars, normVars>>

\* lines 76-77, one pass of the loop
GenYieldTerm ==
    /\ gen_pc = "yield"
    /\ Len(gen_yielded) < Len(selected)
    /\ gen_yielded' = Append(gen_yielded, selected[Len(gen_yielded) + 1])
    /\ UNCHANGED <<input_terms, length, terms, selected, gen_pc, gen_raised,
                   selVars, diceVars, pfxVars, normVars>>

\* the loop of line 76 is exhausted: the generator returns
GenReturn ==
    /\ gen_pc = "yield"
    /\ Len(gen_yielded) = Len(selected)
    /\ gen_pc' = "done"
    /\ UNCHANGED <<input_terms, length, terms, selected, gen_yielded, gen_raised,
                   selVars, diceVars, pfxVars, normVars>>

NextGenerate == CollectTerms \/ SelectTerms \/ GenYieldTerm \/ GenReturn

SpecGenerate == InitGenerate /\ [][NextGenerate]_vars

(***************************************************************************)
(* Properties of libwordlist.min_width_iter, under SpecSelect.             *)
(***************************************************************************)
Pool == Range(iterator)

NoDuplicates(seq) == \A i, j \in 1..Len(seq) : i # j => seq[i] # seq[j]

\* 'list width': the sum of the lengths of the items of a list
RECURSIVE Width(_)
Width(seq) == IF seq = <<>> THEN 0 ELSE Len(Head(seq)) + Width(Tail(seq))

RECURSIVE WidthOfSet(_)
WidthOfSet(S) ==
    IF S = {} THEN 0
    ELSE LET x == CHOOSE y \in S : TRUE IN Len(x) + WidthOfSet(S \ {x})

\* the width w with fewer than n terms of the pool shorter than w and at
\* least n terms not longer than w: the length at sorted position n-1
BoundaryWidth(P, n) ==
    CHOOSE w \in {Len(t) : t \in P} :
        /\ Cardinality({t \in P : Len(t) < w}) < n
        /\ Cardinality({t \in P : Len(t) <= w}) >= n

\* C1: for a pool of unique terms and 1 <= num <= |pool| the generator
\* raises nothing, never yields more than num terms, and has yielded exactly
\* num pairwise distinct terms of the pool when it returns.
C1_ExactlyNumDistinctTermsOfPool ==
    (1 <= num /\ num <= Cardinality(Pool)) =>
        /\ raised = None
        /\ pc # "raised"
        /\ Len(yielded) <= num
        /\ Range(yielded) \subseteq Pool
        /\ NoDuplicates(yielded)
        /\ pc = "done" => Len(yielded) = num

\* a shuffled call that returned 2 of 3 terms in another order than sorted
C1_Witness ==
    /\ pc = "done"
    /\ shuffle_max_width
    /\ Len(iterator) = 3
    /\ num = 2
    /\ Len(yielded) = 2
    /\ LenLexLess(yielded[2], yielded[1])

\* C2: the list width of what a finished call yielded is not greater than
\* the width of any num-element subset of the pool.
C2_MinimalWidth ==
    (pc = "done" /\ num <= Cardinality(Pool)) =>
        \A S \in SUBSET Pool :
            Cardinality(S) = num => Width(yielded) <= WidthOfSet(S)

\* a finished call that left out a longer term and, drawn out of order, a
\* term as long as the one it took
C2_Witness ==
    /\ pc = "done"
    /\ shuffle_max_width
    /\ num = 1
    /\ Len(yielded) = 1
    /\ \E t \in Pool : Len(t) > Len(yielded[1])
    /\ \E t \in Pool \ Range(yielded) :
          Len(t) = Len(yielded[1]) /\ StrLess(t, yielded[1])

\* C3 as claimed: with fewer terms than num the call fails with
\* InsufficientTermsError, yields nothing and never returns normally.
C3_InsufficientTermsError ==
    num > Cardinality(Pool) =>
        /\ yielded = <<>>
        /\ pc # "done"
        /\ pc = "raised" => raised = "InsufficientTermsError"

\* C8: a shuffled call that returned starts with all terms shorter than the
\* boundary width, in ascending (length, lexicographic) order and where the
\* unshuffled call has them; every later position holds a term of the pool
\* of exactly the boundary width.
C8_ShuffleKeepsShorterTerms ==
    (pc = "done" /\ shuffle_max_width /\ 1 <= num /\ num <= Cardinality(Pool)) =>
        LET bw == BoundaryWidth(Pool, num)
            shorter == {t \in Pool : Len(t) < bw}
            k == Cardinality(shorter)
            unshuffled == SliceTo(SortedBy(iterator, ByLenValue), num)
        IN /\ Len(yielded) = num
           /\ k < num
           /\ {yielded[i] : i \in 1..k} = shorter
           /\ \A i, j \in 1..k : i < j => LenLexLess(yielded[i], yielded[j])
           /\ \A i \in 1..k : yielded[i] = unshuffled[i]
           /\ \A i \in (k + 1)..num : yielded[i] \in Pool /\ Len(yielded[i]) = bw

\* shorter terms, a boundary tier drawn out of order, a longer term left out
C8_Witness ==
    /\ pc = "done"
    /\ shuffle_max_width
    /\ Len(iterator) = 3
    /\ num = 2
    /\ Len(yielded) = 2
    /\ Len(yielded[1]) < Len(yielded[2])
    /\ \E t \in Pool \ Range(yielded) : Len(t) = Len(yielded[2]) /\ StrLess(t, yielded[2])

\* C10 as claimed: a call with num = 0 raises nothing and yields nothing.
C10_ZeroYieldsEmpty ==
    num = 0 =>
        /\ raised = None
        /\ pc # "raised"
        /\ yielded = <<>>


(***************************************************************************)
(* Properties of libwordlist.idx_to_dicenums, under SpecDice.              *)
(***************************************************************************)
RECURSIVE Pow(_, _)
Pow(b, e) == IF e = 0 THEN 1 ELSE b * Pow(b, e - 1)

DigitValue(c) == CHOOSE d \in 0..9 : DigitChars[d + 1] = c

RECURSIVE ParseInt(_)
ParseInt(str) ==
    IF str = <<>> THEN 0
    ELSE 10 * ParseInt(SubSeq(str, 1, Len(str) - 1)) + DigitValue(str[Len(str)])

\* the pieces of str between the occurrences of the character sep
RECURSIVE SplitAt(_, _, _)
SplitAt(str, sep, piece) ==
    IF str = <<>> THEN <<piece>>
    ELSE IF Head(str) = sep THEN <<piece>> \o SplitAt(Tail(str), sep, <<>>)
    ELSE SplitAt(Tail(str), sep, Append(piece, Head(str)))

\* the faces a roll string shows: the numbers between the separators, or,
\* without a separator, its digits (faces below 10)
FacesOf(str, sep) ==
    IF sep = <<>> THEN [i \in 1..Len(str) |-> DigitValue(str[i])]
    ELSE LET pieces == SplitAt(str, sep[1], <<>>)
         IN [i \in 1..Len(pieces) |-> ParseInt(pieces[i])]

\* the faces less 1 read as a number in base sides, most significant first
RECURSIVE DecodeFaces(_, _)
DecodeFaces(faces, sides) ==
    IF faces = <<>> THEN 0
    ELSE sides * DecodeFaces(SubSeq(faces, 1, Len(faces) - 1), sides)
            + (faces[Len(faces)] - 1)

\* C4: a call with 0 <= item_index < dice_sides ** dice_num returns, and the
\* roll it returns decodes to item_index.
C4_DecodeRecoversIndex ==
    (item_index < Pow(dice_sides, dice_num) /\ dice_pc # "idle") =>
        /\ dice_pc = "call" => ENABLED ComputeNums
        /\ dice_pc = "done" =>
              DecodeFaces(FacesOf(dicenums, separator), dice_sides) = item_index

\* a returned roll of three dice for an index that needs all three digits
C4_Witness ==
    /\ dice_pc = "done"
    /\ dice_num = 3
    /\ dice_sides = 3
    /\ item_index = 19
    /\ separator = <<"-">>
    /\ dicenums = <<"3", "-", "1", "-", "2">>

\* C9: for dice_num >= 1 and dice_sides >= 2 the call returns, and returns
\* dice_num faces in 1..dice_sides, face i the i-th of the dice_num base
\* dice_sides digits of item_index mod dice_sides ** dice_num, plus 1.
C9_FacesAreDigitsPlusOne ==
    (dice_num >= 1 /\ dice_sides >= 2 /\ dice_pc # "idle") =>
        /\ dice_pc = "call" => ENABLED ComputeNums
        /\ dice_pc = "done" =>
              LET faces == FacesOf(dicenums, separator)
                  kept == item_index % Pow(dice_sides, dice_num)
              IN /\ Len(faces) = dice_num
                 /\ \A i \in 1..dice_num :
                       /\ faces[i] \in 1..dice_sides
                       /\ faces[i] =
                            ((kept \div Pow(dice_sides, dice_num - i)) % dice_sides) + 1

\* a short index padded with face 1 ...
C9_Witness ==
    /\ dice_pc = "done"
    /\ dice_num = 3
    /\ dice_sides = 4
    /\ item_index = 5
    /\ dicenums = <<"1", "-", "2", "-", "2">>


(***************************************************************************)
(* Properties of libwordlist.is_prefix_code, under SpecPrefix.             *)
(***************************************************************************)
\* some term of the list is a prefix of the term at another position
SomePrefixPair(seq) ==
    \E i, j \in 1..Len(seq) : i # j /\ StartsWith(seq[j], seq[i])

\* C5: on a list of non-empty terms is_prefix_code returns true exactly
\* when no term of the list is a prefix of the term at another position.
C5_AdjacentScanIsAllPairs ==
    (pfx_pc = "done" /\ \A i \in 1..Len(pfx_iterator) : pfx_iterator[i] # <<>>) =>
        (pfx_ret <=> ~SomePrefixPair(pfx_iterator))

\* false returned for a prefix pair that is not adjacent in the sorted list
C5_Witness ==
    /\ pfx_pc = "done"
    /\ pfx_ret = FALSE
    /\ pfx_iterator = <<<<"a", "b">>, <<"a", "a">>, <<"a">>>>
    /\ sorted_list = <<<<"a">>, <<"a", "a">>, <<"a", "b">>>>

(***************************************************************************)
(* Properties of libwordlist.normalize, under SpecNormalize.               *)
(***************************************************************************)
\* what the claim expects of one letter
ClaimedFold ==
    [c \in {"ä", "ö", "ü", "Ä", "Ö", "Ü", "ß", "a", "e", "s", "U"} |->
        CASE c = "ä" -> <<"a", "e">>
          [] c = "ö" -> <<"o", "e">>
          [] c = "ü" -> <<"u", "e">>
          [] c = "Ä" -> <<"A", "E">>
          [] c = "Ö" -> <<"O", "E">>
          [] c = "Ü" -> <<"U", "E">>
          [] c = "ß" -> <<"s", "s">>
          [] OTHER -> <<c>>]

\* C6 as claimed: a text of umlaut letters, sharp s and plain letters
\* normalizes to the concatenation of the per-letter results, each umlaut
\* giving its base letter and "e" in the same case.
C6_UmlautsFoldInSameCase ==
    (norm_pc = "done" /\ Range(text) \subseteq DOMAIN ClaimedFold) =>
        normalized = Concat([i \in 1..Len(text) |-> ClaimedFold[text[i]]])

(***************************************************************************)
(* Properties of wordlist_gen.generate_wordlist, under SpecGenerate.       *)
(***************************************************************************)
Distinct == Range(input_terms)

\* C7 as claimed: what a finished call yielded ascends by (length,
\* lexicographic value).
C7_YieldedInSelectorOrder ==
    (gen_pc = "done" /\ length <= Cardinality(Distinct)) =>
        \A i, j \in 1..Len(gen_yielded) :
            i < j => LenLexLess(gen_yielded[i], gen_yielded[j])

\* C7 amended: what a finished call yielded is the Selector's choice, the
\* length first distinct terms by (length, lexicographic value), in ascending
\* lexicographic order.
C7_YieldedInLexicographicOrder ==
    (length <= Cardinality(Distinct)) =>
        /\ gen_raised = None
        /\ gen_pc = "done" =>
              /\ Len(gen_yielded) = length
              /\ Range(gen_yielded) \subseteq Distinct
              /\ \A t \in Range(gen_yielded) :
                    \A u \in Distinct \ Range(gen_yielded) : LenLexLess(t, u)
              /\ \A i, j \in 1..Len(gen_yielded) :
                    i < j => StrLess(gen_yielded[i], gen_yielded[j])

\* duplicates dropped, a longer term yielded before a shorter one
C7_Witness ==
    /\ gen_pc = "done"
    /\ input_terms = <<<<"b">>, <<"a", "a">>, <<"b">>>>
    /\ length = 2
    /\ gen_yielded = <<<<"a", "a">>, <<"b">>>>

=============================================================================
